---- MODULE Spec2Model ----
(***************************************************************************)
(* A model of src/tsc_now.rs (minstant): the TSC clock state, its one-time *)
(* initialisation (TSCLevel::get and init), the per-CPU calibration        *)
(* workers, the reader functions, the anchor arithmetic of cycles_per_sec  *)
(* and the CPU list parser.                                                *)
(*                                                                         *)
(* Conventions.                                                            *)
(*  - A Rust String is a sequence of one-character strings.                *)
(*  - A Vec<T> is a sequence; Vec index i is sequence index i + 1.         *)
(*  - A Result is a record [ok |-> TRUE, val |-> v] or [ok |-> FALSE].     *)
(*  - The counter values (tsc, cycles_from_anchor) are u64 in the source;  *)
(*    here they are TscBits wide, so that wrapping_sub can be checked.     *)
(*  - Frequencies (cycles_per_second) are kept as plain naturals: every    *)
(*    frequency of the model is far below 2^64 / 4096, so neither          *)
(*    tsc_freq_khz * 1000 nor sum_cps overflows.                           *)
(*  - f64 expressions are computed exactly over the rationals; on the      *)
(*    values of the model (all below 2^53) the f64 comparison at line 158  *)
(*    and the ceil at line 258 give the same answers.                      *)
(***************************************************************************)
EXTENDS Integers, Sequences, FiniteSets, TLC

VARIABLES
    is_tsc_available,   \* TSC_STATE.is_tsc_available
    tsc_level,          \* TSC_STATE.tsc_level
    nanos_per_cycle,    \* TSC_STATE.nanos_per_cycle, a fraction [num, den]
    writes,             \* how often each field of TSC_STATE has been stored to
    pc,                 \* where the initialising thread is in init / TSCLevel::get
    local_level,        \* init's local tsc_level (line 30)
    cpuids,             \* TSCLevel::get's cpuids (line 102)
    wstate,             \* per entry of cpuids: where its worker thread is
    wret,               \* per entry of cpuids: what its worker returned
    results,            \* the results collected so far by the join (line 131)
    ret,                \* the latest call of a reader function: what it was
                        \* given, what came of it, and whether init had ended
    parse,              \* the parser run: its input and its result
    sim,                \* the anchor run: a linear counter, the sample, the reads
    hist,               \* what TSCLevel::get has done so far: the answers of
                        \* the probes, the calls of cycles_per_sec on the
                        \* initialising thread, and per worker the cpu it is
                        \* bound to and the cpu it calibrated on
    calib               \* the calibration run: _calculate_cycles_per_sec on a
                        \* counter of constant rate

vars == << is_tsc_available, tsc_level, nanos_per_cycle, writes, pc, local_level,
           cpuids, wstate, wret, results, ret, parse, sim, hist, calib >>

clock == << is_tsc_available, tsc_level, nanos_per_cycle >>

-----------------------------------------------------------------------------
(* Bounds and program constants *)

\* The width of a counter value in the model (64 in the source).
TscBits == 8

Modulus == 2 ^ TscBits

\* 1_000_000_000, lines 37 and 257.
NANOS_PER_SEC == 1000000000

\* tsc_freq_khz * 1000, line 251.
KHZ == 1000

\* aux & 0xfff, line 328: the cpu id is the low 12 bits of IA32_TSC_AUX.
CPU_ID_RANGE == 4096

\* 0.0005 = 1 / 2000, line 158.
SPREAD_INVERSE == 2000

\* std::u64::MAX (line 145) on the frequencies of the model, all of which are
\* below it: the largest number the model checker represents.
U64_MAX == 2147483647

-----------------------------------------------------------------------------
(* Values *)

Err == [ok |-> FALSE]

Ok(v) == [ok |-> TRUE, val |-> v]

Unstable == [tag |-> "Unstable"]

Stable(cps, cfa) ==
    [tag |-> "Stable", cycles_per_second |-> cps, cycles_from_anchor |-> cfa]

PerCPUStable(cps, table) ==
    [tag |-> "PerCPUStable", cycles_per_second |-> cps, cycles_from_anchor |-> table]

\* A subtraction that stops at zero instead of wrapping.
SaturatingSub(a, b) == IF a < b THEN 0 ELSE a - b

\* u64::wrapping_sub on counter values.
WrappingSub(a, b) == (a - b + Modulus) % Modulus

\* f64::ceil of a / b for naturals a and b > 0.
CeilDiv(a, b) == (a \div b) + (IF a % b = 0 THEN 0 ELSE 1)

-----------------------------------------------------------------------------
(* parse_cpu_list_format, lines 365-382 *)

Digits == {"0", "1", "2", "3", "4", "5", "6", "7", "8", "9"}

DigitVal(c) ==
    CASE c = "0" -> 0 [] c = "1" -> 1 [] c = "2" -> 2 [] c = "3" -> 3
      [] c = "4" -> 4 [] c = "5" -> 5 [] c = "6" -> 6 [] c = "7" -> 7
      [] c = "8" -> 8 [] c = "9" -> 9

\* char::is_whitespace on the characters of the model.
WhiteSpace == {" ", "\n", "\t"}

RECURSIVE TrimStart(_)
TrimStart(s) ==
    IF s # << >> /\ Head(s) \in WhiteSpace THEN TrimStart(Tail(s)) ELSE s

RECURSIVE TrimEnd(_)
TrimEnd(s) ==
    IF s # << >> /\ s[Len(s)] \in WhiteSpace
    THEN TrimEnd(SubSeq(s, 1, Len(s) - 1))
    ELSE s

\* str::trim, line 367.
Trim(s) == TrimEnd(TrimStart(s))

\* The index of the first c in s, or 0.
RECURSIVE FindFrom(_, _, _)
FindFrom(s, c, i) ==
    IF i > Len(s) THEN 0
    ELSE IF s[i] = c THEN i
    ELSE FindFrom(s, c, i + 1)

Find(s, c) == FindFrom(s, c, 1)

\* str::contains, line 369.
Contains(s, c) == Find(s, c) # 0

\* str::split, line 368: the pieces between the separators; "" gives one
\* empty piece.
RECURSIVE Split(_, _)
Split(s, c) ==
    LET i == Find(s, c)
    IN  IF i = 0 THEN << s >>
        ELSE << SubSeq(s, 1, i - 1) >> \o Split(SubSeq(s, i + 1, Len(s)), c)

\* str::splitn(2, c), line 370, on a string that contains c: the part before
\* the first c and all that follows it.
SplitN2(s, c) ==
    LET i == Find(s, c)
    IN  << SubSeq(s, 1, i - 1), SubSeq(s, i + 1, Len(s)) >>

RECURSIVE DigitsValue(_, _)
DigitsValue(s, acc) ==
    IF s = << >> THEN acc
    ELSE DigitsValue(Tail(s), 10 * acc + DigitVal(Head(s)))

\* str::parse::<usize>, lines 371, 372 and 377: an optional '+', then one or
\* more decimal digits and nothing else.
ParseUsize(s) ==
    LET body == IF s # << >> /\ Head(s) = "+" THEN Tail(s) ELSE s
    IN  IF body = << >> \/ \E i \in 1..Len(body) : body[i] \notin Digits
        THEN Err
        ELSE Ok(DigitsValue(body, 0))

\* The range of line 373 without its upper end (from..to).
RangeExclusive(from, to) ==
    IF from >= to THEN << >> ELSE [i \in 1..(to - from) |-> from + i - 1]

\* from..=to, line 373.
RangeInclusive(from, to) ==
    IF from > to THEN << >> ELSE [i \in 1..(to - from + 1) |-> from + i - 1]

\* One iteration of the loop of lines 368-379: the ids the token `set` adds
\* to res, or the error that `?` returns.
ParseSet(set) ==
    IF Contains(set, "-")
    THEN LET ft   == SplitN2(set, "-")
             from == ParseUsize(ft[1])
             to   == ParseUsize(ft[2])
         IN  IF ~from.ok \/ ~to.ok THEN Err
             ELSE Ok(RangeInclusive(from.val, to.val))
    ELSE LET n == ParseUsize(set)
         IN  IF ~n.ok THEN Err ELSE Ok(<< n.val >>)

\* The loop of lines 368-379 with a token that does not parse passed over
\* in place of the `?` of lines 371, 372 and 377.
RECURSIVE ParseSetsSkip(_, _)
ParseSetsSkip(sets, res) ==
    IF sets = << >> THEN Ok(res)
    ELSE LET r == ParseSet(Head(sets))
         IN  ParseSetsSkip(Tail(sets), IF r.ok THEN res \o r.val ELSE res)

RECURSIVE ParseSets(_, _)
ParseSets(sets, res) ==
    IF sets = << >> THEN Ok(res)
    ELSE LET r == ParseSet(Head(sets))
         IN  IF ~r.ok THEN Err ELSE ParseSets(Tail(sets), res \o r.val)

parse_cpu_list_format(list) == ParseSets(Split(Trim(list), ","), << >>)

-----------------------------------------------------------------------------
(* What the environment can deliver *)

\* The content of /sys/devices/system/cpu/online (line 333), or the failure
\* to read it.
ONLINE_FILE ==
    { Err,
      Ok(<< "0", "\n" >>),
      Ok(<< "0", "-", "1", "\n" >>),
      Ok(<< "0", "-", "2", "\n" >>),
      Ok(<< "0", ",", "2", "\n" >>),
      Ok(<< "1", ",", "0" >>),
      Ok(<< "0", ",", "0", "\n" >>),
      Ok(<< "2", "-", "0", "\n" >>),
      Ok(<< "0", "-", "\n" >>),
      Ok(<< >>) }

\* The value of /sys/devices/system/cpu/cpu0/tsc_freq_khz as parsed by
\* try_read_tsc_freq_khz (lines 235-241), or its failure.
TSC_FREQ_KHZ == { Err, Ok(0), Ok(1000) }

\* The frequencies _calculate_cycles_per_sec (lines 264-290) can return.
CALCULATED_CPS == { 999000, 999950, 1000000, 1000100, 1000500, 1005000 }

\* (last_monotonic - anchor).as_nanos(), line 256.
NANOS_FROM_ANCHOR == { 1500 }

\* The counter value of the calibration sample, last_tsc (lines 250, 289).
LAST_TSC == { 5, 9 }

\* The counter values a reader can read with tsc() or tsc_with_cpuid().
TSC_READS == { 0, Modulus - 1 }

\* The values of IA32_TSC_AUX a serializing read can deliver: a cpu id in
\* the low 12 bits, a node id above them.
TSC_AUX == { 0, 2, CPU_ID_RANGE + 1 }

-----------------------------------------------------------------------------
(* cycles_per_sec, lines 248-261 *)

\* cycles_per_sec rounding up by adding one to the whole cycles.
cycles_per_sec_plus_one(khz, calculated, nanos, last_tsc) ==
    LET cps          == IF khz.ok THEN khz.val * KHZ ELSE calculated
        cycles_flied == ((cps * nanos) \div NANOS_PER_SEC) + 1
    IN  << cps, last_tsc - cycles_flied >>

\* khz: the result of try_read_tsc_freq_khz; calculated: the frequency
\* _calculate_cycles_per_sec returns when the file cannot be read; nanos:
\* the time from the anchor to the sample; last_tsc: the sampled counter.
\* The counter has been running since before the anchor, so last_tsc is at
\* least the cycles elapsed since the anchor and line 258 does not underflow.
cycles_per_sec(khz, calculated, nanos, last_tsc) ==
    LET cps          == IF khz.ok THEN khz.val * KHZ ELSE calculated
        cycles_flied == CeilDiv(cps * nanos, NANOS_PER_SEC)
    IN  << cps, last_tsc - cycles_flied >>

\* The results cycles_per_sec can have on the inputs of the model.
CyclesPerSecResults ==
    { cycles_per_sec(khz, calculated, nanos, last_tsc) :
        khz \in TSC_FREQ_KHZ, calculated \in CALCULATED_CPS,
        nanos \in NANOS_FROM_ANCHOR, last_tsc \in LAST_TSC }

-----------------------------------------------------------------------------
(* tsc_with_cpuid, lines 309-329 *)

tsc_with_cpuid(tsc, aux) == << tsc, aux % CPU_ID_RANGE >>

-----------------------------------------------------------------------------
(* TSCLevel::get, the merge of the workers' results, lines 139-165 *)

RECURSIVE MaxOf(_)
MaxOf(s) ==
    IF Len(s) = 1 THEN s[1]
    ELSE LET m == MaxOf(Tail(s)) IN IF s[1] > m THEN s[1] ELSE m

\* The comparison of line 158 with >= for >.
SpreadAtLeast(max_cps, min_cps) ==
    (max_cps - min_cps) * SPREAD_INVERSE >= min_cps

\* (max_cps - min_cps) as f64 / min_cps as f64 > 0.0005, line 158. A
\* division by zero gives +inf, or NaN for 0 / 0, and NaN > x is false.
SpreadTooBig(max_cps, min_cps) ==
    IF min_cps = 0 THEN max_cps > 0
    ELSE (max_cps - min_cps) * SPREAD_INVERSE > min_cps

\* The loop of lines 148-157 with the slot of the cpu before: cpuid - 1 for
\* cpuid, and no slot for cpu 0.
RECURSIVE MergeLoopSlotBefore(_, _)
MergeLoopSlotBefore(rs, acc) ==
    IF rs = << >> THEN acc
    ELSE LET cpuid == Head(rs)[1]
             cps   == Head(rs)[2]
             cfa   == Head(rs)[3]
         IN  MergeLoopSlotBefore(Tail(rs),
                 [max_cps |-> IF cps > acc.max_cps THEN cps ELSE acc.max_cps,
                  min_cps |-> IF cps < acc.min_cps THEN cps ELSE acc.min_cps,
                  sum_cps |-> acc.sum_cps + cps,
                  cycles_from_anchor |->
                      IF cpuid = 0 THEN acc.cycles_from_anchor
                      ELSE [acc.cycles_from_anchor EXCEPT ![cpuid] = cfa]])

\* The loop of lines 148-157 over the results still to visit.
RECURSIVE MergeLoop(_, _)
MergeLoop(rs, acc) ==
    IF rs = << >> THEN acc
    ELSE LET cpuid == Head(rs)[1]
             cps   == Head(rs)[2]
             cfa   == Head(rs)[3]
         IN  MergeLoop(Tail(rs),
                 [max_cps |-> IF cps > acc.max_cps THEN cps ELSE acc.max_cps,
                  min_cps |-> IF cps < acc.min_cps THEN cps ELSE acc.min_cps,
                  sum_cps |-> acc.sum_cps + cps,
                  cycles_from_anchor |->
                      [acc.cycles_from_anchor EXCEPT ![cpuid + 1] = cfa]])

\* The merge with the sum divided by the table's length instead of the
\* number of results.
MergeResultsByTableLen(rs, max_cpu_id) ==
    LET acc == MergeLoop(rs,
                   [max_cps |-> 0, min_cps |-> U64_MAX, sum_cps |-> 0,
                    cycles_from_anchor |-> [i \in 1..(max_cpu_id + 1) |-> 0]])
    IN  IF SpreadTooBig(acc.max_cps, acc.min_cps) THEN Unstable
        ELSE PerCPUStable(acc.sum_cps \div (max_cpu_id + 1), acc.cycles_from_anchor)

\* The merge with a table of one slot per result, vec![0; results.len()] at
\* line 140.
MergeResultsTableByCount(rs, max_cpu_id) ==
    LET acc == MergeLoop(rs,
                   [max_cps |-> 0, min_cps |-> U64_MAX, sum_cps |-> 0,
                    cycles_from_anchor |-> [i \in 1..Len(rs) |-> 0]])
    IN  IF SpreadTooBig(acc.max_cps, acc.min_cps) THEN Unstable
        ELSE PerCPUStable(acc.sum_cps \div Len(rs), acc.cycles_from_anchor)

MergeResults(rs, max_cpu_id) ==
    LET acc == MergeLoop(rs,
                   [max_cps |-> 0, min_cps |-> U64_MAX, sum_cps |-> 0,
                    cycles_from_anchor |-> [i \in 1..(max_cpu_id + 1) |-> 0]])
    IN  IF SpreadTooBig(acc.max_cps, acc.min_cps) THEN Unstable
        ELSE PerCPUStable(acc.sum_cps \div Len(rs), acc.cycles_from_anchor)

-----------------------------------------------------------------------------
(* current_cycle, lines 59-74 *)

Panic(msg) == [outcome |-> "panic", msg |-> msg]

Value(v) == [outcome |-> "value", val |-> v]

\* current_cycle with a sentinel value in place of the panic of line 72.
current_cycle_sentinel(level, tsc, aux) ==
    CASE level.tag = "Stable" ->
            Value(WrappingSub(tsc, level.cycles_from_anchor))
      [] level.tag = "PerCPUStable" ->
            LET cpuid == tsc_with_cpuid(tsc, aux)[2]
            IN  IF cpuid + 1 > Len(level.cycles_from_anchor)
                THEN Panic("index out of bounds")
                ELSE Value(WrappingSub(tsc, level.cycles_from_anchor[cpuid + 1]))
      [] level.tag = "Unstable" -> Value(0)

\* current_cycle with the whole of IA32_TSC_AUX as the index, without the
\* mask of line 328.
current_cycle_unmasked(level, tsc, aux) ==
    CASE level.tag = "Stable" ->
            Value(WrappingSub(tsc, level.cycles_from_anchor))
      [] level.tag = "PerCPUStable" ->
            IF aux + 1 > Len(level.cycles_from_anchor)
            THEN Panic("index out of bounds")
            ELSE Value(WrappingSub(tsc, level.cycles_from_anchor[aux + 1]))
      [] level.tag = "Unstable" -> Panic("tsc is unstable")

\* level: the stored tsc_level; tsc, aux: what the counter read delivers.
current_cycle(level, tsc, aux) ==
    CASE level.tag = "Stable" ->
            Value(WrappingSub(tsc, level.cycles_from_anchor))
      [] level.tag = "PerCPUStable" ->
            LET cpuid == tsc_with_cpuid(tsc, aux)[2]
            IN  IF cpuid + 1 > Len(level.cycles_from_anchor)
                THEN Panic("index out of bounds")
                ELSE Value(WrappingSub(tsc, level.cycles_from_anchor[cpuid + 1]))
      [] level.tag = "Unstable" -> Panic("tsc is unstable")

-----------------------------------------------------------------------------
(* The state before init runs, lines 14-18 *)

\* No parser run and no anchor run is under way.
ParseIdle == [pc |-> "idle"]

SimIdle == [pc |-> "idle"]

NoWorker == << >>

\* No calibration run is in progress.
CalibIdle == [pc |-> "idle"]

\* A thread that sched_setaffinity has not bound runs on any cpu.
NotBound == -1

\* The cpus a thread may be scheduled on.
CORES == 0..2

\* Nothing has been asked or run yet.
HistIdle ==
    [stable |-> "unasked", percpu |-> "unasked", calibrations |-> 0,
     bound |-> << >>, verified |-> << >>, measured |-> << >>]

InitClock ==
    /\ is_tsc_available = FALSE
    /\ tsc_level = Unstable
    /\ nanos_per_cycle = [num |-> 1, den |-> 1]
    /\ writes = [is_tsc_available |-> 0, tsc_level |-> 0, nanos_per_cycle |-> 0]
    /\ pc = "get"
    /\ local_level = Unstable
    /\ cpuids = << >>
    /\ wstate = << >>
    /\ wret = << >>
    /\ results = << >>
    /\ ret = [op |-> "none", done |-> FALSE]
    /\ hist = HistIdle

Init ==
    /\ InitClock
    /\ parse = ParseIdle
    /\ sim = SimIdle
    /\ calib = CalibIdle

-----------------------------------------------------------------------------
(* TSCLevel::get on the initialising thread, lines 90-169 *)

\* Lines 91-92 with the answer of is_tsc_stable() not acted on: the per-cpu
\* probe is asked whatever it was.
ProbeStableIgnored ==
    /\ pc = "get"
    /\ \E stable \in BOOLEAN :
          /\ pc' = "percpu"
          /\ hist' = [hist EXCEPT !.stable = IF stable THEN "true" ELSE "false"]
    /\ UNCHANGED << clock, writes, local_level, cpuids, wstate, wret, results,
                    ret, parse, sim, calib >>

\* Lines 91-92: the anchor is taken and is_tsc_stable() is asked.
ProbeStable ==
    /\ pc = "get"
    /\ \E stable \in BOOLEAN :
          /\ pc' = IF stable THEN "stable" ELSE "percpu"
          /\ hist' = [hist EXCEPT !.stable = IF stable THEN "true" ELSE "false"]
    /\ UNCHANGED << clock, writes, local_level, cpuids, wstate, wret, results,
                    ret, parse, sim, calib >>

\* Lines 93-97: one calibration on the initialising thread.
CalibrateStable ==
    /\ pc = "stable"
    /\ \E r \in CyclesPerSecResults : local_level' = Stable(r[1], r[2])
    /\ pc' = "init"
    /\ hist' = [hist EXCEPT !.calibrations = @ + 1]
    /\ UNCHANGED << clock, writes, cpuids, wstate, wret, results, ret, parse, sim,
                    calib >>

\* Lines 100 and 168: is_tsc_percpu_stable() is asked.
ProbePerCpu ==
    /\ pc = "percpu"
    /\ \E percpu \in BOOLEAN :
          /\ IF percpu
             THEN pc' = "cpus" /\ UNCHANGED local_level
             ELSE pc' = "init" /\ local_level' = Unstable
          /\ hist' = [hist EXCEPT !.percpu = IF percpu THEN "true" ELSE "false"]
    /\ UNCHANGED << clock, writes, cpuids, wstate, wret, results, ret, parse, sim,
                    calib >>

\* available_cpus, lines 332-335.
available_cpus(file) == IF file.ok THEN parse_cpu_list_format(file.val) ELSE Err

\* Lines 102-112: the online CPUs are read; no list or an empty one is Unstable.
AvailableCpus ==
    /\ pc = "cpus"
    /\ \E file \in ONLINE_FILE :
          LET r == available_cpus(file)
          IN  IF ~r.ok \/ r.val = << >>
              THEN /\ pc' = "init"
                   /\ local_level' = Unstable
                   /\ UNCHANGED << cpuids, wstate, wret, hist >>
              ELSE /\ pc' = "next"
                   /\ cpuids' = r.val
                   /\ wstate' = [i \in 1..Len(r.val) |-> "unspawned"]
                   /\ wret' = [i \in 1..Len(r.val) |-> NoWorker]
                   /\ hist' = [hist EXCEPT
                                  !.bound = [i \in 1..Len(r.val) |-> NotBound],
                                  !.verified = [i \in 1..Len(r.val) |-> FALSE],
                                  !.measured = [i \in 1..Len(r.val) |-> NotBound]]
                   /\ UNCHANGED local_level
    /\ UNCHANGED << clock, writes, results, ret, parse, sim, calib >>

\* Lines 116-117 as driven by line 131: `handles` is a lazy iterator, so the
\* collect of line 131 takes the next id and spawns its thread only when it
\* asks for the next handle.
Spawn ==
    /\ pc = "next"
    /\ Len(results) < Len(cpuids)
    /\ wstate' = [wstate EXCEPT ![Len(results) + 1] = "pin"]
    /\ pc' = "join"
    /\ UNCHANGED << clock, writes, local_level, cpuids, wret, results, ret,
                    parse, sim,
                    hist, calib >>

\* The join with h.join().unwrap(): a worker's panic is raised again on the
\* initialising thread.
JoinUnwrap ==
    /\ pc = "join"
    /\ LET i == Len(results) + 1
       IN  \/ /\ wstate[i] = "returned"
              /\ results' = Append(results, wret[i])
              /\ pc' = "next"
           \/ /\ wstate[i] = "panicked"
              /\ pc' = "panicked"
              /\ UNCHANGED results
    /\ UNCHANGED << clock, writes, local_level, cpuids, wstate, wret, ret,
                    parse, sim,
                    hist, calib >>

\* Lines 131-137 with a join that does not wait: a worker that has not ended
\* yet is given up, as one that panicked is.
JoinNoWait ==
    /\ pc = "join"
    /\ LET i == Len(results) + 1
       IN  \/ /\ wstate[i] = "returned"
              /\ results' = Append(results, wret[i])
              /\ pc' = "next"
              /\ UNCHANGED local_level
           \/ /\ wstate[i] # "returned"
              /\ local_level' = Unstable
              /\ pc' = "init"
              /\ UNCHANGED results
    /\ UNCHANGED << clock, writes, cpuids, wstate, wret, ret, parse, sim,
                    hist, calib >>

\* Lines 131-137: h.join() on the handle just made. A worker that panicked
\* gives Err, on which collect stops and TSCLevel::get returns Unstable.
Join ==
    /\ pc = "join"
    /\ LET i == Len(results) + 1
       IN  \/ /\ wstate[i] = "returned"
              /\ results' = Append(results, wret[i])
              /\ pc' = "next"
              /\ UNCHANGED local_level
           \/ /\ wstate[i] = "panicked"
              /\ local_level' = Unstable
              /\ pc' = "init"
              /\ UNCHANGED results
    /\ UNCHANGED << clock, writes, cpuids, wstate, wret, ret, parse, sim,
                    hist, calib >>

\* Lines 139-165, once the iterator is exhausted.
Merge ==
    /\ pc = "next"
    /\ Len(results) = Len(cpuids)
    /\ local_level' = MergeResults(results, MaxOf(cpuids))
    /\ pc' = "init"
    /\ UNCHANGED << clock, writes, cpuids, wstate, wret, results, ret, parse, sim,
                    hist, calib >>

-----------------------------------------------------------------------------
(* The worker thread of cpuids[i], lines 117-127 *)

\* Line 118 without the unwrap: the worker goes on when set_affinity failed.
SetAffinityUnchecked(i) ==
    /\ wstate[i] = "pin"
    /\ \E ok \in BOOLEAN :
          /\ wstate' = [wstate EXCEPT ![i] = "verify"]
          /\ hist' = [hist EXCEPT !.bound[i] = IF ok THEN cpuids[i] ELSE @]
    /\ UNCHANGED << clock, writes, pc, local_level, cpuids, wret, results, ret,
                    parse, sim, calib >>

\* Line 118: set_affinity(id).unwrap().
SetAffinity(i) ==
    /\ wstate[i] = "pin"
    /\ \E ok \in BOOLEAN :
          /\ wstate' = [wstate EXCEPT ![i] = IF ok THEN "verify" ELSE "panicked"]
          /\ hist' = [hist EXCEPT !.bound[i] = IF ok THEN cpuids[i] ELSE @]
    /\ UNCHANGED << clock, writes, pc, local_level, cpuids, wret, results, ret,
                    parse, sim, calib >>

\* Lines 121-122: assert_eq!(cpuid, id).
CheckCpuId(i) ==
    /\ wstate[i] = "verify"
    /\ \E tsc \in TSC_READS, aux \in TSC_AUX :
          LET same == tsc_with_cpuid(tsc, aux)[2] = cpuids[i]
          IN  /\ wstate' = [wstate EXCEPT ![i] =
                               IF same THEN "calibrate" ELSE "panicked"]
              /\ hist' = [hist EXCEPT !.verified[i] = same]
    /\ UNCHANGED << clock, writes, pc, local_level, cpuids, wret, results, ret,
                    parse, sim, calib >>

\* Lines 124-126: the worker returns (id, cps, cfa).
WorkerCalibrate(i) ==
    /\ wstate[i] = "calibrate"
    /\ \E r \in CyclesPerSecResults :
          wret' = [wret EXCEPT ![i] = << cpuids[i], r[1], r[2] >>]
    /\ \E cpu \in CORES :
          /\ hist.bound[i] # NotBound => cpu = hist.bound[i]
          /\ hist' = [hist EXCEPT !.measured[i] = cpu]
    /\ wstate' = [wstate EXCEPT ![i] = "returned"]
    /\ UNCHANGED << clock, writes, pc, local_level, cpuids, results, ret,
                    parse, sim, calib >>

Worker == \E i \in 1..Len(cpuids) : SetAffinity(i) \/ CheckCpuId(i) \/ WorkerCalibrate(i)

-----------------------------------------------------------------------------
(* init, lines 28-42 *)

\* TSCLevel::cycles_per_second, lines 171-182.
cycles_per_second(level) ==
    CASE level.tag = "Stable" -> level.cycles_per_second
      [] level.tag = "PerCPUStable" -> level.cycles_per_second

\* Lines 31-35 with the PerCPUStable arm giving false.
IsAvailableStableOnly(level) ==
    CASE level.tag = "Stable" -> TRUE
      [] level.tag = "PerCPUStable" -> FALSE
      [] level.tag = "Unstable" -> FALSE

\* Lines 31-35.
IsAvailable(level) ==
    CASE level.tag = "Stable" -> TRUE
      [] level.tag = "PerCPUStable" -> TRUE
      [] level.tag = "Unstable" -> FALSE

\* Lines 36-38.
StoreNanosPerCycle ==
    /\ pc = "init"
    /\ IF IsAvailable(local_level)
       THEN /\ nanos_per_cycle' =
                   [num |-> NANOS_PER_SEC, den |-> cycles_per_second(local_level)]
            /\ writes' = [writes EXCEPT !.nanos_per_cycle = @ + 1]
       ELSE UNCHANGED << nanos_per_cycle, writes >>
    /\ pc' = "store_available"
    /\ UNCHANGED << is_tsc_available, tsc_level, local_level, cpuids, wstate,
                    wret, results, ret, parse, sim,
                    hist, calib >>

\* Line 39.
StoreAvailable ==
    /\ pc = "store_available"
    /\ is_tsc_available' = IsAvailable(local_level)
    /\ writes' = [writes EXCEPT !.is_tsc_available = @ + 1]
    /\ pc' = "store_level"
    /\ UNCHANGED << tsc_level, nanos_per_cycle, local_level, cpuids, wstate,
                    wret, results, ret, parse, sim,
                    hist, calib >>

\* Line 40.
StoreLevel ==
    /\ pc = "store_level"
    /\ tsc_level' = local_level
    /\ writes' = [writes EXCEPT !.tsc_level = @ + 1]
    /\ pc' = "fence"
    /\ UNCHANGED << is_tsc_available, nanos_per_cycle, local_level, cpuids,
                    wstate, wret, results, ret, parse, sim,
                    hist, calib >>

\* Line 41.
Fence ==
    /\ pc = "fence"
    /\ pc' = "done"
    /\ UNCHANGED << clock, writes, local_level, cpuids, wstate, wret, results,
                    ret, parse, sim,
                    hist, calib >>

-----------------------------------------------------------------------------
(* The reader functions, lines 44-74, called from any thread at any time *)

\* is_tsc_available, lines 44-47.
IsTscAvailable ==
    /\ ret' = [op |-> "is_tsc_available", done |-> pc = "done",
               val |-> is_tsc_available]
    /\ UNCHANGED << clock, writes, pc, local_level, cpuids, wstate, wret,
                    results, parse, sim,
                    hist, calib >>

\* get_tsc_level, lines 49-52.
GetTscLevel ==
    /\ ret' = [op |-> "get_tsc_level", done |-> pc = "done", val |-> tsc_level]
    /\ UNCHANGED << clock, writes, pc, local_level, cpuids, wstate, wret,
                    results, parse, sim,
                    hist, calib >>

\* nanos_per_cycle computing and storing the scale on its first call.
NanosPerCycleLazy ==
    /\ ret' = [op |-> "nanos_per_cycle", done |-> pc = "done",
               val |-> nanos_per_cycle]
    /\ nanos_per_cycle' = [num |-> NANOS_PER_SEC, den |-> 1]
    /\ writes' = [writes EXCEPT !.nanos_per_cycle = @ + 1]
    /\ UNCHANGED << is_tsc_available, tsc_level, pc, local_level, cpuids,
                    wstate, wret, results, parse, sim,
                    hist, calib >>

\* nanos_per_cycle, lines 54-57.
NanosPerCycle ==
    /\ ret' = [op |-> "nanos_per_cycle", done |-> pc = "done",
               val |-> nanos_per_cycle]
    /\ UNCHANGED << clock, writes, pc, local_level, cpuids, wstate, wret,
                    results, parse, sim,
                    hist, calib >>

\* current_cycle, lines 59-74, with what the counter read delivers.
CurrentCycle ==
    /\ \E tsc \in TSC_READS, aux \in TSC_AUX :
          ret' = [op |-> "current_cycle", done |-> pc = "done",
                  tsc |-> tsc, aux |-> aux,
                  res |-> current_cycle(tsc_level, tsc, aux)]
    /\ UNCHANGED << clock, writes, pc, local_level, cpuids, wstate, wret,
                    results, parse, sim,
                    hist, calib >>

Reader == IsTscAvailable \/ GetTscLevel \/ NanosPerCycle \/ CurrentCycle

-----------------------------------------------------------------------------

Next ==
    \/ ProbeStable
    \/ CalibrateStable
    \/ ProbePerCpu
    \/ AvailableCpus
    \/ Spawn
    \/ Join
    \/ Merge
    \/ Worker
    \/ StoreNanosPerCycle
    \/ StoreAvailable
    \/ StoreLevel
    \/ Fence
    \/ Reader

Spec == Init /\ [][Next]_vars

-----------------------------------------------------------------------------
(* Properties of the initialisation and of the readers *)

\* The worker results have all been collected and merged (line 139 onwards).
Merged ==
    /\ cpuids # << >>
    /\ Len(results) = Len(cpuids)
    /\ pc \in {"init", "store_available", "store_level", "fence", "done"}

\* The frequency that result k carries.
Cps(k) == results[k][2]

RECURSIVE SumCps(_)
SumCps(k) == IF k = 0 THEN 0 ELSE Cps(k) + SumCps(k - 1)

\* C1: once init has ended, is_tsc_available() returns false exactly when
\* the stored level is Unstable and true exactly when it is Stable or
\* PerCPUStable, whatever the probes and the calibration gave; and a level
\* returned by get_tsc_level() is Unstable exactly when the flag is false.
C1_AvailableIffNotUnstable ==
    /\ pc = "done" =>
          /\ is_tsc_available = FALSE <=> tsc_level.tag = "Unstable"
          /\ is_tsc_available = TRUE <=> tsc_level.tag \in {"Stable", "PerCPUStable"}
    /\ ret.op = "is_tsc_available" /\ ret.done =>
          (ret.val = FALSE <=> tsc_level.tag = "Unstable")
    /\ ret.op = "get_tsc_level" /\ ret.done =>
          (ret.val.tag = "Unstable" <=> is_tsc_available = FALSE)

C1_Witness ==
    /\ pc = "done"
    /\ tsc_level.tag = "PerCPUStable"
    /\ ret.op = "is_tsc_available" /\ ret.done /\ ret.val = TRUE

\* C2: a call of current_cycle() made while the stored level is Unstable
\* ends in a panic, returns no value, and changes no field of TSC_STATE.
C2_UnstableReadPanics ==
    [][ (ret'.op = "current_cycle" /\ (ret.op # "current_cycle" \/ ret' # ret)
           /\ tsc_level.tag = "Unstable")
          => /\ ret'.res.outcome = "panic"
             /\ ret'.res = Panic("tsc is unstable")
             /\ UNCHANGED << clock, writes >> ]_vars

C2_Witness ==
    /\ ret.op = "current_cycle" /\ ret.done
    /\ tsc_level.tag = "Unstable"
    /\ ret.res.outcome = "panic"

\* C3: after init, current_cycle() returns for Stable the counter read minus
\* the stored cycles_from_anchor, and for PerCPUStable the counter read minus
\* the table entry of the cpu id in the low 12 bits of the aux value of the
\* same read, whenever that id is within the table; the difference is taken
\* modulo 2^TscBits.
C3_CurrentCycleValue ==
    (ret.op = "current_cycle" /\ ret.done) =>
        LET cpuid == ret.aux % CPU_ID_RANGE
            IsDiff(v, a, b) ==
                /\ v \in 0..(Modulus - 1)
                /\ \E k \in {0, 1} : v = a - b + k * Modulus
        IN  /\ tsc_level.tag = "Stable" =>
                 /\ ret.res.outcome = "value"
                 /\ IsDiff(ret.res.val, ret.tsc, tsc_level.cycles_from_anchor)
            /\ (tsc_level.tag = "PerCPUStable"
                  /\ cpuid + 1 \in DOMAIN tsc_level.cycles_from_anchor) =>
                 /\ ret.res.outcome = "value"
                 /\ IsDiff(ret.res.val, ret.tsc,
                           tsc_level.cycles_from_anchor[cpuid + 1])

\* A PerCPUStable read on cpu 1 of node 1 whose subtraction wraps.
C3_Witness ==
    /\ ret.op = "current_cycle" /\ ret.done
    /\ tsc_level.tag = "PerCPUStable"
    /\ ret.aux = CPU_ID_RANGE + 1
    /\ ret.res.outcome = "value"
    /\ ret.res.val > ret.tsc

\* C4: every field of TSC_STATE is stored to at most once, only by the
\* stores of init (lines 37, 39 and 40), and once init has ended no step,
\* whatever readers are called, changes a field.
C4_WrittenOnce ==
    /\ [](\A f \in DOMAIN writes : writes[f] <= 1)
    /\ [][ /\ nanos_per_cycle' # nanos_per_cycle => pc = "init"
           /\ is_tsc_available' # is_tsc_available => pc = "store_available"
           /\ tsc_level' # tsc_level => pc = "store_level"
           /\ writes' # writes => pc \in {"init", "store_available", "store_level"}
           /\ pc = "done" => UNCHANGED << clock, writes, pc >> ]_vars

C4_Witness ==
    /\ pc = "done"
    /\ \A f \in DOMAIN writes : writes[f] = 1
    /\ ret.op = "current_cycle" /\ ret.done /\ ret.res.outcome = "value"

\* C5: once a worker has panicked (the affinity call failed or the cpu id
\* read back differs), the initialising thread does not panic, the level it
\* computes is Unstable, and no PerCPUStable level is ever stored.
C5_WorkerFailureGivesUnstable ==
    (\E i \in 1..Len(wstate) : wstate[i] = "panicked") =>
        /\ pc # "panicked"
        /\ pc # "join" => local_level = Unstable /\ pc \notin {"next", "merge"}
        /\ tsc_level = Unstable
        /\ is_tsc_available = FALSE
        /\ pc = "done" => writes.nanos_per_cycle = 0

\* The second worker failed after the first had returned its result.
C5_Witness ==
    /\ pc = "done"
    /\ Len(results) = 1
    /\ Len(wstate) >= 2 /\ wstate[2] = "panicked"
    /\ tsc_level = Unstable

\* C6: with two or more online CPUs, every worker has been spawned by the
\* time the initialising thread waits for one of them.
C6_AllSpawnedBeforeJoin ==
    (pc = "join" /\ Len(cpuids) >= 2) =>
        \A i \in 1..Len(cpuids) : wstate[i] # "unspawned"

\* C7: when every worker has returned, the level computed is Unstable if
\* (max - min) / min > 0.0005 over the workers' frequencies, and
\* PerCPUStable otherwise. (Over naturals: some pair f, g of the frequencies
\* has (f - g) * 2000 > g.)
C7_SpreadGating ==
    Merged =>
        LET n == Len(results)
            TooFar == \E i, j \in 1..n :
                         (Cps(i) - Cps(j)) * SPREAD_INVERSE > Cps(j)
        IN  /\ TooFar => local_level = Unstable
            /\ ~TooFar => local_level.tag = "PerCPUStable"

\* The frequencies [1000000, 1000100, 999950] give PerCPUStable.
C7_Witness ==
    /\ Merged
    /\ Len(results) = 3
    /\ << Cps(1), Cps(2), Cps(3) >> = << 1000000, 1000100, 999950 >>
    /\ local_level.tag = "PerCPUStable"

\* C8: the cycles_per_second of a PerCPUStable level is the sum of the
\* workers' frequencies divided by the number of entries of the online-CPU
\* list, rounded down, and lies between the least and the greatest of them.
C8_AverageCps ==
    (Merged /\ local_level.tag = "PerCPUStable") =>
        LET n   == Len(cpuids)
            avg == local_level.cycles_per_second
        IN  /\ avg * n <= SumCps(n)
            /\ SumCps(n) < (avg + 1) * n
            /\ \E i \in 1..n : Cps(i) <= avg
            /\ \E i \in 1..n : avg <= Cps(i)
            /\ pc = "done" => tsc_level = local_level

\* A division that leaves a remainder.
C8_Witness ==
    /\ Merged /\ pc = "done"
    /\ tsc_level.tag = "PerCPUStable"
    /\ Len(cpuids) = 3
    /\ SumCps(3) % 3 # 0

\* C12: the probes are asked in order and the first that holds decides. When
\* is_tsc_stable() is true the level is Stable, from one call of
\* cycles_per_sec on the initialising thread; is_tsc_percpu_stable() is not
\* asked and no worker is spawned. When both probes are false the level is
\* Unstable and neither cycles_per_sec nor a worker has run.
C12_FirstProbeDecides ==
    /\ hist.stable = "true" =>
          /\ hist.percpu = "unasked"
          /\ cpuids = << >> /\ wstate = << >>
          /\ hist.calibrations = (IF pc = "stable" THEN 0 ELSE 1)
          /\ pc # "stable" => local_level.tag = "Stable"
          /\ pc = "done" => tsc_level.tag = "Stable"
    /\ (hist.stable = "false" /\ hist.percpu = "false") =>
          /\ cpuids = << >> /\ wstate = << >>
          /\ hist.calibrations = 0
          /\ local_level = Unstable
          /\ tsc_level = Unstable

\* init has ended on the Stable path.
C12_Witness ==
    /\ pc = "done"
    /\ hist.stable = "true"
    /\ hist.calibrations = 1
    /\ tsc_level.tag = "Stable"

\* Worker i has been spawned and has neither returned nor panicked.
WorkerRunning(i) == wstate[i] \in {"pin", "verify", "calibrate"}

\* C13: TSC_STATE is written, and init ends, only when every worker that was
\* spawned has ended, whether the workers succeeded or one of them failed.
C13_InitWaitsForWorkers ==
    (\/ pc \in {"init", "store_available", "store_level", "fence", "done"}
     \/ writes.nanos_per_cycle + writes.is_tsc_available + writes.tsc_level > 0)
        => \A i \in 1..Len(wstate) : ~WorkerRunning(i)

\* init has ended after the second of three workers failed.
C13_Witness ==
    /\ pc = "done"
    /\ wstate = << "returned", "panicked", "unspawned" >>
    /\ writes.tsc_level = 1

\* C14: a worker calls cycles_per_sec only after set_affinity(id) succeeded
\* and the cpu id read with the counter was id, in this order; so every
\* (id, cps, cfa) a worker returns was measured on the cpu id.
C14_MeasuredOnOwnCpu ==
    \A i \in 1..Len(wstate) :
        /\ wstate[i] \in {"verify", "calibrate", "returned"} =>
               hist.bound[i] = cpuids[i]
        /\ wstate[i] \in {"calibrate", "returned"} => hist.verified[i]
        /\ wstate[i] \in {"unspawned", "pin", "verify"} => ~hist.verified[i]
        /\ wstate[i] = "returned" =>
               /\ wret[i][1] = cpuids[i]
               /\ hist.measured[i] = wret[i][1]
        /\ wstate[i] # "returned" => hist.measured[i] = NotBound

\* The worker of cpu 2 has returned its result.
C14_Witness ==
    /\ Len(wstate) = 2
    /\ wstate[2] = "returned"
    /\ wret[2][1] = 2
    /\ hist.measured[2] = 2

\* The cpus that were online when init ran.
OnlineIds == { cpuids[i] : i \in 1..Len(cpuids) }

\* C15: the table of every PerCPUStable level that init stores has one slot
\* more than the greatest online cpu id.
C15_TableLength ==
    tsc_level.tag = "PerCPUStable" =>
        \E m \in OnlineIds :
            /\ \A id \in OnlineIds : id <= m
            /\ Len(tsc_level.cycles_from_anchor) = m + 1

\* The cpus 0 and 2 are online: a table of three slots, two results.
C15_Witness ==
    /\ tsc_level.tag = "PerCPUStable"
    /\ cpuids = << 0, 2 >>
    /\ Len(tsc_level.cycles_from_anchor) = 3

\* C16: with a PerCPUStable level stored, a call of current_cycle() on a cpu
\* that was online when init ran finds its index within the table, and the
\* slot it reads holds the cycles_from_anchor that a worker of that cpu
\* returned; it does not read a slot of a cpu that was not online.
C16_OnlineReadsOwnSlot ==
    LET cpu == ret.aux % CPU_ID_RANGE
    IN  (/\ ret.op = "current_cycle" /\ ret.done
         /\ tsc_level.tag = "PerCPUStable"
         /\ cpu \in OnlineIds)
        => /\ cpu + 1 <= Len(tsc_level.cycles_from_anchor)
           /\ \E k \in 1..Len(results) :
                 /\ results[k][1] = cpu
                 /\ hist.measured[k] = cpu
                 /\ tsc_level.cycles_from_anchor[cpu + 1] = results[k][3]
                 /\ ret.res = Value(WrappingSub(ret.tsc, results[k][3]))

\* With the cpus 0 and 2 online, a read on cpu 2 while the slot of cpu 1
\* holds the sentinel.
C16_Witness ==
    /\ ret.op = "current_cycle" /\ ret.done
    /\ tsc_level.tag = "PerCPUStable"
    /\ cpuids = << 0, 2 >>
    /\ ret.aux % CPU_ID_RANGE = 2
    /\ tsc_level.cycles_from_anchor[2] = 0
    /\ ret.res.outcome = "value"

\* No id occurs twice in the list of online cpus.
DistinctIds == \A j, k \in 1..Len(cpuids) : j # k => cpuids[j] # cpuids[k]

\* C17 as stated: whatever list the parser returned, no two workers' results
\* are written to the same slot of the table.
C17_OneWorkerPerSlot ==
    Merged => \A j, k \in 1..Len(results) : j # k => results[j][1] # results[k][1]

\* C17, amended: when no id occurs twice in the list, every worker's
\* cycles_from_anchor is in the slot of its cpu after the merge, none written
\* over by another's; and the table is made and filled by the initialising
\* thread when every worker has returned, so no two writes to it race.
C17_DistinctIdsOwnSlots ==
    /\ (Merged /\ DistinctIds /\ local_level.tag = "PerCPUStable") =>
           \A k \in 1..Len(results) :
               local_level.cycles_from_anchor[results[k][1] + 1] = results[k][3]
    /\ ((pc = "next" /\ Len(results) = Len(cpuids)) \/ Merged) =>
           \A i \in 1..Len(wstate) : wstate[i] = "returned"

\* The list "1,0": two workers, two slots.
C17_Witness ==
    /\ Merged
    /\ cpuids = << 1, 0 >>
    /\ local_level.tag = "PerCPUStable"
    /\ local_level.cycles_from_anchor = << results[2][3], results[1][3] >>

\* C19: a Stable or PerCPUStable level that init stores has a
\* cycles_per_second of 1 at least, so that nanos_per_cycle, 10^9 over it,
\* is finite.
C19_PositiveCps ==
    tsc_level.tag \in {"Stable", "PerCPUStable"} =>
        /\ tsc_level.cycles_per_second > 0
        /\ nanos_per_cycle.den > 0

\* C20: at every point of init, between its writes too, is_tsc_available
\* true goes with a tsc_level that is not Unstable, so that a current_cycle()
\* called after is_tsc_available() gave true does not panic.
C20_AvailableImpliesLevel ==
    is_tsc_available => tsc_level.tag # "Unstable"

-----------------------------------------------------------------------------
(* The parser on its own: parse_cpu_list_format applied to range lists *)

\* The ids that the range lists of the model are made of.
LIST_IDS == { 0, 2, 7, 15 }

\* The most items (single ids or ranges) of a generated range list.
MaxItems == 3

\* An item is a single id, [from |-> n, to |-> n, range |-> FALSE], or a
\* range from-to, [from |-> a, to |-> b, range |-> TRUE].
Single(n) == [from |-> n, to |-> n, range |-> FALSE]

Range(a, b) == [from |-> a, to |-> b, range |-> TRUE]

ITEMS == { Single(n) : n \in LIST_IDS } \cup { Range(a, b) : a, b \in LIST_IDS }

\* The inputs of the test of lines 388-402, as items.
TEST_LISTS ==
    { << Range(0, 2), Single(7), Range(12, 14) >>,
      << Range(0, 4), Single(9) >>,
      << Range(0, 15) >> }

ITEM_LISTS ==
    UNION { [1..n -> ITEMS] : n \in 1..MaxItems } \cup TEST_LISTS

DigitChar(d) ==
    CASE d = 0 -> "0" [] d = 1 -> "1" [] d = 2 -> "2" [] d = 3 -> "3"
      [] d = 4 -> "4" [] d = 5 -> "5" [] d = 6 -> "6" [] d = 7 -> "7"
      [] d = 8 -> "8" [] d = 9 -> "9"

\* The decimal digits of n, as the kernel prints a cpu id.
RECURSIVE Decimal(_)
Decimal(n) ==
    IF n < 10 THEN << DigitChar(n) >>
    ELSE Decimal(n \div 10) \o << DigitChar(n % 10) >>

ItemText(it) ==
    IF it.range THEN Decimal(it.from) \o << "-" >> \o Decimal(it.to)
    ELSE Decimal(it.from)

\* The text of a range list: its items separated by commas.
RECURSIVE ListText(_)
ListText(items) ==
    IF Len(items) = 1 THEN ItemText(items[1])
    ELSE ItemText(items[1]) \o << "," >> \o ListText(Tail(items))

InitParse ==
    /\ InitClock
    /\ sim = SimIdle
    /\ calib = CalibIdle
    /\ \E items \in ITEM_LISTS, newline \in BOOLEAN :
          parse = [pc |-> "call", items |-> items,
                   list |-> ListText(items) \o (IF newline THEN << "\n" >> ELSE << >>),
                   res |-> Err]

\* parse_cpu_list_format(&list), lines 365-382.
ParseCall ==
    /\ parse.pc = "call"
    /\ parse' = [parse EXCEPT !.pc = "returned",
                              !.res = parse_cpu_list_format(parse.list)]
    /\ UNCHANGED << clock, writes, pc, local_level, cpuids, wstate, wret,
                    results, ret, sim,
                    hist, calib >>

NextParse == ParseCall

SpecParse == InitParse /\ [][NextParse]_vars

\* The ids an item denotes: from, from + 1, ..., to.
ItemIds(it) ==
    IF it.from > it.to THEN << >>
    ELSE [k \in 1..(it.to - it.from + 1) |-> it.from + (k - 1)]

RECURSIVE ListIds(_)
ListIds(items) ==
    IF items = << >> THEN << >> ELSE ItemIds(Head(items)) \o ListIds(Tail(items))

\* C10: for a well-formed range list, with or without a newline at its end,
\* the parser returns Ok with exactly the ids the list denotes, in the order
\* of the text, every range expanded, nothing sorted and no duplicate dropped.
C10_ParseExpandsInOrder ==
    parse.pc = "returned" =>
        /\ parse.res.ok
        /\ parse.res.val = ListIds(parse.items)

\* "0-2,7,12-14\n" has given [0, 1, 2, 7, 12, 13, 14].
C10_Witness ==
    /\ parse.pc = "returned"
    /\ parse.list = << "0", "-", "2", ",", "7", ",", "1", "2", "-", "1", "4", "\n" >>
    /\ parse.res = Ok(<< 0, 1, 2, 7, 12, 13, 14 >>)

-----------------------------------------------------------------------------
(* The parser on any text: parse_cpu_list_format applied to every string *)
(* of a few characters, well formed or not                               *)

\* The characters of the texts.
RAW_CHARS == { "0", "1", "-", ",", "+", " ", "\n" }

\* The most characters of a text.
MaxChars == 4

RAW_LISTS == UNION { [1..n -> RAW_CHARS] : n \in 0..MaxChars }

InitParseRaw ==
    /\ InitClock
    /\ sim = SimIdle
    /\ calib = CalibIdle
    /\ \E list \in RAW_LISTS :
          parse = [pc |-> "call", items |-> << >>, list |-> list, res |-> Err]

SpecParseRaw == InitParseRaw /\ [][NextParse]_vars

\* s[i..j] is a token of s: it lies between two commas, or a comma and an
\* end of s, and holds no comma. j = i - 1 is the empty token.
IsTokenAt(s, i, j) ==
    /\ i = 1 \/ s[i - 1] = ","
    /\ j = Len(s) \/ s[j + 1] = ","
    /\ \A k \in i..j : s[k] # ","

\* A decimal integer as str::parse::<usize> reads one: digits, one at least,
\* after an optional '+'.
ValidInt(t) ==
    LET digits == IF t # << >> /\ t[1] = "+" THEN SubSeq(t, 2, Len(t)) ELSE t
    IN  /\ digits # << >>
        /\ \A k \in 1..Len(digits) : digits[k] \in Digits

\* A range from-to: a '-' with an integer on either side of it.
ValidRange(t) ==
    \E d \in 1..Len(t) :
        /\ t[d] = "-"
        /\ ValidInt(SubSeq(t, 1, d - 1))
        /\ ValidInt(SubSeq(t, d + 1, Len(t)))

\* The text without the white space around it has a token that is neither
\* an integer nor a range.
HasBadToken(list) ==
    LET s == Trim(list)
    IN  \E i \in 1..(Len(s) + 1) : \E j \in (i - 1)..Len(s) :
            /\ IsTokenAt(s, i, j)
            /\ LET t == SubSeq(s, i, j) IN ~ValidInt(t) /\ ~ValidRange(t)

\* C11: whenever a token of the text, the empty token of an empty text, of a
\* doubled or of a trailing comma included, is neither a decimal integer nor
\* a range with an integer on both sides, the parser returns an error and no
\* list of ids; the token is not passed over.
C11_BadTokenIsError ==
    (parse.pc = "returned" /\ HasBadToken(parse.list)) => parse.res = Err

\* "0,,1" has given an error.
C11_Witness ==
    /\ parse.pc = "returned"
    /\ parse.list = << "0", ",", ",", "1" >>
    /\ HasBadToken(parse.list)
    /\ parse.res = Err

-----------------------------------------------------------------------------
(* The anchor arithmetic on its own: cycles_per_sec and current_cycle on a *)
(* counter that is linear in time, counter(t) = cps * t / 10^9 + c0 with t *)
(* in nanoseconds. The counter is read at the times at which it takes a    *)
(* whole value, the multiples of its period 10^9 / cps; the anchor is any  *)
(* nanosecond.                                                             *)

\* The rates of the counter, in cycles per second.
SIM_CPS == { 500000, 1000000, 2000000, 4000000 }

\* The value of the counter at time 0.
SIM_C0 == { 0, 3 }

\* The time of the calibration sample, in periods.
SIM_SAMPLE == { 0, 1, 2 }

\* The time of a later read, in periods.
SIM_LATER == { 0, 1, 2, 5, 200 }

Period(cps) == NANOS_PER_SEC \div cps

\* The anchor instants, in nanoseconds.
SimAnchors(cps) ==
    { 0, 1, Period(cps) \div 2, Period(cps) - 1, Period(cps), Period(cps) + 1,
      2 * Period(cps) - 1, 2 * Period(cps) }

InitAnchor ==
    /\ InitClock
    /\ parse = ParseIdle
    /\ calib = CalibIdle
    /\ \E cps \in SIM_CPS, c0 \in SIM_C0 :
          \E anchor \in SimAnchors(cps) :
              sim = [pc |-> "sample", cps |-> cps, c0 |-> c0, anchor |-> anchor,
                     sample |-> 0, cfa |-> 0, later |-> 0, tsc |-> 0,
                     res |-> Value(0)]

\* cycles_per_sec(anchor), lines 248-261, with the frequency file giving the
\* rate of the counter and the sample taken at period ks, not before the
\* anchor.
SimCyclesPerSec ==
    /\ sim.pc = "sample"
    /\ \E ks \in SIM_SAMPLE :
          /\ ks * Period(sim.cps) >= sim.anchor
          /\ sim' = [sim EXCEPT
                        !.pc = "read",
                        !.sample = ks,
                        !.cfa = cycles_per_sec(Ok(sim.cps \div KHZ), 0,
                                    ks * Period(sim.cps) - sim.anchor,
                                    ks + sim.c0)[2]]
    /\ UNCHANGED << clock, writes, pc, local_level, cpuids, wstate, wret,
                    results, ret, parse,
                    hist, calib >>

\* current_cycle(), lines 59-64, on the Stable level of that calibration, at
\* period kl, not before the sample.
SimCurrentCycle ==
    /\ sim.pc = "read"
    /\ \E kl \in SIM_LATER :
          /\ kl >= sim.sample
          /\ sim' = [sim EXCEPT
                        !.pc = "done",
                        !.later = kl,
                        !.tsc = kl + sim.c0,
                        !.res = current_cycle(Stable(sim.cps, sim.cfa),
                                              kl + sim.c0, 0)]
    /\ UNCHANGED << clock, writes, pc, local_level, cpuids, wstate, wret,
                    results, ret, parse,
                    hist, calib >>

NextAnchor == SimCyclesPerSec \/ SimCurrentCycle

SpecAnchor == InitAnchor /\ [][NextAnchor]_vars

\* cps * (sample time - anchor), the cycles from the anchor to the sample
\* times 10^9.
SimNanoCycles == sim.cps * (sim.sample * Period(sim.cps) - sim.anchor)

\* C9: on a linear counter, with the sample at or after the anchor, the
\* value current_cycle() returns at a later time differs from
\* rate * (later - anchor) by at most one cycle, and neither line 258 nor
\* the subtraction of the read goes below zero. (rate * (later - anchor) is
\* the whole periods from the sample to the read plus x = SimNanoCycles / 10^9;
\* for r the value less those periods, |r - x| <= 1 is r - 1 <= floor(x) and
\* ceil(x) <= r + 1.)
C9_AnchorConsistency ==
    sim.pc = "done" =>
        LET floor_x == SimNanoCycles \div NANOS_PER_SEC
            ceil_x  == floor_x + (IF SimNanoCycles % NANOS_PER_SEC = 0 THEN 0 ELSE 1)
            r       == sim.res.val - (sim.later - sim.sample)
        IN  /\ sim.res.outcome = "value"
            /\ sim.cfa >= 0
            /\ sim.cfa <= sim.tsc
            /\ sim.res.val = sim.tsc - sim.cfa
            /\ r - 1 <= floor_x
            /\ ceil_x <= r + 1

\* A sample that is not a whole number of cycles after the anchor, and a
\* read after it.
C9_Witness ==
    /\ sim.pc = "done"
    /\ SimNanoCycles % NANOS_PER_SEC # 0
    /\ sim.later > sim.sample
    /\ sim.c0 = 0

-----------------------------------------------------------------------------
(* The calibration loop on its own: _calculate_cycles_per_sec, lines       *)
(* 264-290, on a counter of constant rate, counter(t) = rate * t / 10^9 +  *)
(* c0 with t in nanoseconds. As in the anchor run, the clock and the       *)
(* counter are read together at the times at which the counter takes a     *)
(* whole value, the multiples of its period. An estimate is kept as the    *)
(* exact quotient num / den of cycles by nanoseconds, which stands for     *)
(* num * 10^9 / den cycles per second.                                     *)

\* The least length of a measuring window, line 277.
MIN_WINDOW_NANOS == 10000000

\* The relative change below which the estimate is taken, 1 / 0.00001, line 283.
TOLERANCE_INVERSE == 100000

\* The rates of the counter, in cycles per second.
CALIB_RATES == { 100, 200, 250, 500 }

\* The value of the counter at time 0.
CALIB_C0 == { 0, 3 }

\* The time from one call of monotonic_with_tsc to the next, in periods.
CALIB_STEP == { 1, 2, 3 }

\* The most iterations of the outer loop that a run is followed for.
MaxIter == 4

Abs(x) == IF x < 0 THEN -x ELSE x

\* old_cycles = 0.0, line 269.
ZeroEstimate == [num |-> 0, den |-> 1]

\* f64::abs(cps - old) / cps < 0.00001, lines 282-283, on exact quotients.
\* With cps = 0 the quotient is NaN or +inf and the comparison is false.
Converged(cps, old) ==
    LET ad == cps.num * old.den
        cb == old.num * cps.den
    IN  IF ad = 0 THEN FALSE
        ELSE Abs(ad - cb) <= (ad - 1) \div TOLERANCE_INVERSE

\* (num * 10^9 / den).round() as u64, line 289.
RoundEstimate(cps) ==
    LET q == NANOS_PER_SEC \div cps.den
        r == NANOS_PER_SEC % cps.den
    IN  cps.num * q + (2 * (cps.num * r) + cps.den) \div (2 * cps.den)

InitCalib ==
    /\ InitClock
    /\ parse = ParseIdle
    /\ sim = SimIdle
    /\ \E rate \in CALIB_RATES, c0 \in CALIB_C0 :
          calib = [pc |-> "outer", rate |-> rate, c0 |-> c0, now |-> 0,
                   iter |-> 0, old_cycles |-> ZeroEstimate,
                   cycles_per_sec |-> ZeroEstimate,
                   t1 |-> 0, tsc1 |-> 0, last_monotonic |-> 0, last_tsc |-> 0,
                   res |-> << >>]

\* monotonic_with_tsc, lines 295-297, called `step` periods after the call
\* before: the time in nanoseconds and the counter.
CalibRead(step) ==
    LET now == calib.now + step
    IN  [now |-> now, t |-> now * Period(calib.rate), tsc |-> calib.c0 + now]

\* Line 272: a window begins.
CalibStart ==
    /\ calib.pc = "outer"
    /\ calib.iter < MaxIter
    /\ \E step \in CALIB_STEP :
          LET m == CalibRead(step)
          IN  calib' = [calib EXCEPT !.pc = "inner", !.now = m.now,
                                     !.iter = @ + 1, !.t1 = m.t, !.tsc1 = m.tsc]
    /\ UNCHANGED << clock, writes, pc, local_level, cpuids, wstate, wret,
                    results, ret, parse, sim, hist >>

\* Lines 273-281: one sample; the window ends when it is longer than 10 ms.
CalibSample ==
    /\ calib.pc = "inner"
    /\ \E step \in CALIB_STEP :
          LET m == CalibRead(step)
              elapsed_nanos == m.t - calib.t1
          IN  calib' = [calib EXCEPT
                          !.now = m.now,
                          !.last_monotonic = m.t,
                          !.last_tsc = m.tsc,
                          !.cycles_per_sec =
                              IF elapsed_nanos > MIN_WINDOW_NANOS
                              THEN [num |-> m.tsc - calib.tsc1, den |-> elapsed_nanos]
                              ELSE @,
                          !.pc = IF elapsed_nanos > MIN_WINDOW_NANOS
                                 THEN "check" ELSE "inner"]
    /\ UNCHANGED << clock, writes, pc, local_level, cpuids, wstate, wret,
                    results, ret, parse, sim, hist >>

\* Lines 282-286 without the assignment of line 286: old_cycles stays 0.0.
CalibCheckKeepsOld ==
    /\ calib.pc = "check"
    /\ IF Converged(calib.cycles_per_sec, calib.old_cycles)
       THEN calib' = [calib EXCEPT
                        !.pc = "returned",
                        !.res = << RoundEstimate(calib.cycles_per_sec),
                                   calib.last_monotonic, calib.last_tsc >>]
       ELSE calib' = [calib EXCEPT !.pc = "outer"]
    /\ UNCHANGED << clock, writes, pc, local_level, cpuids, wstate, wret,
                    results, ret, parse, sim, hist >>

\* Lines 282-289: the estimate is compared with the one before; the loop
\* ends and the rounded estimate is returned, or the estimate is kept.
CalibCheck ==
    /\ calib.pc = "check"
    /\ IF Converged(calib.cycles_per_sec, calib.old_cycles)
       THEN calib' = [calib EXCEPT
                        !.pc = "returned",
                        !.res = << RoundEstimate(calib.cycles_per_sec),
                                   calib.last_monotonic, calib.last_tsc >>]
       ELSE calib' = [calib EXCEPT !.pc = "outer",
                                   !.old_cycles = calib.cycles_per_sec]
    /\ UNCHANGED << clock, writes, pc, local_level, cpuids, wstate, wret,
                    results, ret, parse, sim, hist >>

NextCalib == CalibStart \/ CalibSample \/ CalibCheck

\* The thread that calibrates keeps running.
SpecCalib == InitCalib /\ [][NextCalib]_vars /\ WF_vars(NextCalib)

\* C18: on a counter of constant rate the calibration loop ends: the first
\* estimate is never taken (the one before it is 0), the second is, so the
\* loop makes two iterations and no more, and it returns the rate of the
\* counter.
C18_CalibrationConverges ==
    /\ [](calib.pc # "idle" => calib.iter <= 2)
    /\ [](calib.pc = "returned" => /\ calib.iter = 2
                                   /\ calib.res[1] = calib.rate)
    /\ <>(calib.pc = "returned")

\* A counter of 250 cycles per second: 250 returned after two windows.
C18_Witness ==
    /\ calib.pc = "returned"
    /\ calib.rate = 250
    /\ calib.iter = 2
    /\ calib.res[1] = 250

====
